---- MODULE Spec2Model ----
(***************************************************************************)
(* The Notes component (src/components/Notes.tsx): four pieces of React    *)
(* state (apiData, isLoading, note, message), the requests it has in       *)
(* flight against the Notes API, and the reset timers its effect has       *)
(* scheduled.                                                              *)
(*                                                                         *)
(* One step of the model is one event of the single-threaded event loop:   *)
(* a user event handler, the continuation of an async function after its   *)
(* awaits, or a timer callback.  React 18 batches the setState calls of    *)
(* one such event into one render, and the effect of lines 52-62 runs      *)
(* after that render; the effect is therefore part of every action.  An    *)
(* async function reads apiData and note from the closure of the render    *)
(* in which it was called: the request record carries both.                *)
(***************************************************************************)
EXTENDS Integers, Sequences, FiniteSets, Bags, TLC

\* ------------------------------------------------------------------ bounds
MaxPending == 2     \* requests in flight plus reset timers pending, at once
MaxRequests == 2    \* POST, PUT and DELETE requests the user starts in one run

Titles == {"", "a"}
Contents == {"x"}

\* ------------------------------------------------------------------ values
\* A nullable value is a sequence of length 0 (null) or 1.
Null == <<>>
Some(x) == <<x>>
Val(o) == o[1]

\* The id read from a falsy JSON body (false, 0, ""): undefined.
Undefined == -1

Note(i, t, c) == [id |-> i, title |-> t, content |-> c]

\* { id: 0, title: "", content: "" }
EmptyNote == Note(0, "", "")

\* A falsy response body of POST: every property read from it is undefined,
\* which the inputs coalesce to 0 and "" and the guards treat as falsy.
FalsyData == Note(Undefined, "", "")

\* JavaScript truthiness of an id (a number or undefined).
Truthy(i) == i # 0 /\ i # Undefined

\* message: null, or one of the strings the component can be given.
NoMessage == "null"
ErrRequired == "Error: Note title and content are required."
MsgCreated == "Note created successfully!"
ErrCreate == "Error: Failed to create note."
ErrUpdate == "Error: Failed to update note."
ErrDelete == "Error: Failed to delete note."
\* The result field of the API's PUT and DELETE responses.
ResultUpdated == "Note updated"
ResultDeleted == "Note deleted"
ResultNotFound == "Note not found"

VARIABLES
    apiData,    \* Null or Some(sequence of notes)            (line 27)
    isLoading,  \* BOOLEAN                                    (line 28)
    note,       \* Null or Some(note): the draft              (line 29)
    message,    \* NoMessage or a string                      (line 30)
    timers,     \* number of setTimeout callbacks pending     (line 54)
    inflight,   \* bag of requests awaiting their response
    store,      \* the API's notes, in insertion order
    nextId,     \* the id the API gives the next created note
    started,    \* POST, PUT and DELETE requests started so far
    last,       \* the event the last step ran
    older       \* pending timers scheduled before the status shown was set

vars == <<apiData, isLoading, note, message, timers, inflight, store, nextId,
          started, last, older>>

\* ------------------------------------------------------------------ helpers
SelectNotId(s, id) == SelectSeq(s, LAMBDA n : n.id # id)

\* apiData || []
ListOrEmpty(a) == IF a = Null THEN <<>> ELSE Val(a)

\* note?.id ?? 0
DraftId(n) == IF n = Null \/ Val(n).id = Undefined THEN 0 ELSE Val(n).id
\* note?.title ?? ""
DraftTitle(n) == IF n = Null THEN "" ELSE Val(n).title
\* note?.content ?? ""
DraftContent(n) == IF n = Null THEN "" ELSE Val(n).content

\* !note || !note.title || !note.content
DraftInvalidMutant(n) == n = Null \/ Val(n).title = ""
DraftInvalid(n) == n = Null \/ Val(n).title = "" \/ Val(n).content = ""

\* note?.id as a condition
DraftHasIdMutant(n) == n # Null
DraftHasId(n) == n # Null /\ Truthy(Val(n).id)

\* setTimeout callbacks run in the order they were scheduled (all with the
\* same delay, line 60): the timers pending when a status replaces another
\* value of message fire before the one its own render schedules.
EarlierTimers(msg1) ==
    IF msg1 = NoMessage THEN 0 ELSE IF msg1 # message THEN timers ELSE older

\* The effect of lines 52-62, run after a render in which message or note
\* changed: the number of timers it schedules.
ResetEffectMutant(msg0, msg1, noteChanged) ==
    IF noteChanged /\ msg1 # NoMessage THEN 1 ELSE 0
ResetEffect(msg0, msg1, noteChanged) ==
    IF (msg0 # msg1 \/ noteChanged) /\ msg1 # NoMessage THEN 1 ELSE 0

NoData == [list |-> <<>>, note |-> FalsyData, result |-> ""]

Request(kind, id, body, snap) ==
    [kind |-> kind, id |-> id, body |-> body, snap |-> snap,
     stage |-> "sent", data |-> NoData]

Sent(b, r) == b (+) SetToBag({r})
Settled(b, r) == b (-) SetToBag({r})
Pending == BagCardinality(inflight)

\* The form is rendered only when isLoading is false (lines 135-137).
CanAct == ~isLoading /\ timers + Pending < MaxPending

Init ==
    /\ apiData = Null
    /\ isLoading = TRUE
    /\ note = Null
    /\ message = NoMessage
    /\ timers = 0
    /\ inflight = SetToBag({Request("GET", 0, Null, Null)})
    /\ store = <<Note(1, "a", "x")>>
    /\ nextId = 2
    /\ started = 0
    /\ last = "mount"
    /\ older = 0

\* ------------------------------------------------------------------ user events
\* onChange of the title input (lines 148-154)
TypeTitle(t) ==
    /\ CanAct
    /\ t # DraftTitle(note)
    /\ note' = Some(Note(DraftId(note), t, DraftContent(note)))
    /\ timers' = timers + ResetEffect(message, message, TRUE)
    /\ last' = "typeTitle"
    /\ UNCHANGED <<apiData, isLoading, message, inflight, store, nextId, started, older>>

\* onChange of the content input (lines 161-167)
TypeContent(c) ==
    /\ CanAct
    /\ c # DraftContent(note)
    /\ note' = Some(Note(DraftId(note), DraftTitle(note), c))
    /\ timers' = timers + ResetEffect(message, message, TRUE)
    /\ last' = "typeContent"
    /\ UNCHANGED <<apiData, isLoading, message, inflight, store, nextId, started, older>>

\* onClick of Clear (line 178)
Clear ==
    /\ CanAct
    /\ note' = Some(EmptyNote)
    /\ timers' = timers + ResetEffect(message, message, TRUE)
    /\ last' = "clear"
    /\ UNCHANGED <<apiData, isLoading, message, inflight, store, nextId, started, older>>

\* onClick of an entry's Edit button (line 217): setNote(item).  React skips
\* the render, and with it the effect, when the state is set to the object it
\* already holds; objects are told apart here by their values.
Edit(k) ==
    /\ CanAct
    /\ apiData # Null
    /\ k \in 1..Len(Val(apiData))
    /\ note' = Some(Val(apiData)[k])
    /\ timers' = timers + ResetEffect(message, message, note' # note)
    /\ last' = "edit"
    /\ UNCHANGED <<apiData, isLoading, message, inflight, store, nextId, started, older>>

\* createNote up to its first await (lines 67-81)
CreateNote ==
    IF DraftInvalid(note)
    THEN /\ message' = ErrRequired
         /\ timers' = timers + ResetEffect(message, message', FALSE)
         /\ older' = EarlierTimers(message')
         /\ UNCHANGED <<apiData, isLoading, note, inflight, store, nextId, started>>
    ELSE /\ started < MaxRequests
         /\ started' = started + 1
         /\ inflight' = Sent(inflight, Request("POST", 0, note, apiData))
         /\ UNCHANGED <<apiData, isLoading, note, message, timers, store, nextId, older>>

\* updateNote up to its first await (lines 97-105)
UpdateNoteMutant(id) ==
    IF DraftInvalid(note)
    THEN /\ message' = ErrRequired
         /\ timers' = timers + ResetEffect(message, message', FALSE)
         /\ older' = EarlierTimers(message')
         /\ UNCHANGED <<apiData, isLoading, note, inflight, store, nextId, started>>
    ELSE /\ started < MaxRequests
         /\ started' = started + 1
         /\ inflight' = Sent(inflight, Request("PUT", id, note, apiData))
         /\ UNCHANGED <<apiData, isLoading, note, message, timers, store, nextId, older>>
UpdateNote(id) ==
    /\ started < MaxRequests
    /\ started' = started + 1
    /\ inflight' = Sent(inflight, Request("PUT", id, note, apiData))
    /\ UNCHANGED <<apiData, isLoading, note, message, timers, store, nextId, older>>

\* onClick of the submit button (line 172)
Submit ==
    /\ CanAct
    /\ last' = "submit"
    /\ IF DraftHasId(note) THEN UpdateNote(Val(note).id) ELSE CreateNote

\* deleteNote up to its first await (lines 121-125)
DeleteNote(id) ==
    /\ started < MaxRequests
    /\ started' = started + 1
    /\ inflight' = Sent(inflight, Request("DELETE", id, Null, apiData))
    /\ UNCHANGED <<apiData, isLoading, note, message, timers, store, nextId, older>>

\* onClick of an entry's Delete button (line 230)
Delete(k) ==
    /\ CanAct
    /\ apiData # Null
    /\ k \in 1..Len(Val(apiData))
    /\ last' = "delete"
    /\ DeleteNote(Val(apiData)[k].id)

\* ------------------------------------------------------------------ the Notes API
HasId(s, id) == \E k \in 1..Len(s) : s[k].id = id

\* What the API answers to a request, and the store it leaves.
ServerAnswer(r, falsy) ==
    CASE r.kind = "GET" ->
           [data |-> [NoData EXCEPT !.list = store], store |-> store, used |-> 0]
      [] r.kind = "POST" ->
           IF falsy
           THEN [data |-> NoData, store |-> store, used |-> 0]
           ELSE LET made == Note(nextId, Val(r.body).title, Val(r.body).content)
                IN  [data |-> [NoData EXCEPT !.note = made],
                     store |-> Append(store, made), used |-> 1]
      [] r.kind = "PUT" ->
           IF HasId(store, r.id)
           THEN [data |-> [NoData EXCEPT !.result = ResultUpdated],
                 store |-> [k \in 1..Len(store) |->
                              IF store[k].id = r.id
                              THEN Note(r.id, Val(r.body).title, Val(r.body).content)
                              ELSE store[k]],
                 used |-> 0]
           ELSE [data |-> [NoData EXCEPT !.result = ResultNotFound],
                 store |-> store, used |-> 0]
      [] r.kind = "DELETE" ->
           IF HasId(store, r.id)
           THEN [data |-> [NoData EXCEPT !.result = ResultDeleted],
                 store |-> SelectNotId(store, r.id), used |-> 0]
           ELSE [data |-> [NoData EXCEPT !.result = ResultNotFound],
                 store |-> store, used |-> 0]

\* The API handles request i and sends its response.
ServerProcess(r, falsy) ==
    /\ r.stage = "sent"
    /\ falsy => r.kind = "POST"
    /\ LET a == ServerAnswer(r, falsy)
       IN  /\ inflight' = Sent(Settled(inflight, r),
                                [r EXCEPT !.stage = "done", !.data = a.data])
           /\ store' = a.store
           /\ nextId' = nextId + a.used
    /\ last' = "process"
    /\ UNCHANGED <<apiData, isLoading, note, message, timers, started, older>>

\* ------------------------------------------------------------------ continuations
\* fetchData after its awaits (lines 39-40, 44)
FetchDataResolve(r) ==
    /\ apiData' = Some(r.data.list)
    /\ isLoading' = FALSE
    /\ UNCHANGED <<note, message, timers, older>>

\* createNote after its awaits (lines 82-87)
CreateNoteResolveMutant(r) ==
    /\ message' = IF r.data.note # FalsyData THEN MsgCreated ELSE ErrCreate
    /\ note' = Some(EmptyNote)
    /\ apiData' = Some(Append(ListOrEmpty(apiData), r.data.note))
    /\ timers' = timers + ResetEffect(message, message', TRUE)
    /\ older' = EarlierTimers(message')
    /\ UNCHANGED isLoading
CreateNoteResolve(r) ==
    /\ message' = IF r.data.note # FalsyData THEN MsgCreated ELSE ErrCreate
    /\ note' = Some(EmptyNote)
    /\ apiData' = Some(Append(ListOrEmpty(r.snap), r.data.note))
    /\ timers' = timers + ResetEffect(message, message', TRUE)
    /\ older' = EarlierTimers(message')
    /\ UNCHANGED isLoading

\* updateNote after its awaits (lines 106-111): the map replaces the entry
\* with { ...note, ...note }, the callback's own parameter.
UpdateNoteResolveMutant(r) ==
    /\ message' = r.data.result
    /\ apiData' = Some(IF r.snap = Null THEN <<>>
                       ELSE [k \in 1..Len(Val(r.snap)) |->
                               IF Val(r.snap)[k].id = r.id THEN Val(r.body)
                               ELSE Val(r.snap)[k]])
    /\ timers' = timers + ResetEffect(message, message', FALSE)
    /\ older' = EarlierTimers(message')
    /\ UNCHANGED <<isLoading, note>>
UpdateNoteResolve(r) ==
    /\ message' = r.data.result
    /\ apiData' = Some(IF r.snap = Null THEN <<>>
                       ELSE [k \in 1..Len(Val(r.snap)) |-> Val(r.snap)[k]])
    /\ timers' = timers + ResetEffect(message, message', FALSE)
    /\ older' = EarlierTimers(message')
    /\ UNCHANGED <<isLoading, note>>

\* deleteNote after its awaits (lines 126-128)
DeleteNoteResolveMutant(r) ==
    /\ message' = r.data.result
    /\ apiData' = Some(SelectNotId(ListOrEmpty(apiData), r.id))
    /\ timers' = timers + ResetEffect(message, message', FALSE)
    /\ older' = EarlierTimers(message')
    /\ UNCHANGED <<isLoading, note>>
DeleteNoteResolve(r) ==
    /\ message' = r.data.result
    /\ apiData' = Some(IF r.snap = Null THEN <<>> ELSE SelectNotId(Val(r.snap), r.id))
    /\ timers' = timers + ResetEffect(message, message', FALSE)
    /\ older' = EarlierTimers(message')
    /\ UNCHANGED <<isLoading, note>>

\* The response of request i arrives and parses.
Resolve(r) ==
    /\ r.stage = "done"
    /\ CASE r.kind = "GET" -> FetchDataResolve(r)
         [] r.kind = "POST" -> CreateNoteResolve(r)
         [] r.kind = "PUT" -> UpdateNoteResolve(r)
         [] r.kind = "DELETE" -> DeleteNoteResolve(r)
    /\ inflight' = Settled(inflight, r)
    /\ last' = "resolve"
    /\ UNCHANGED <<store, nextId, started>>

\* The catch and finally blocks (lines 41-45, 88-91, 112-115, 129-132).
CatchMutant(r) ==
    /\ message' = CASE r.kind = "GET" -> message
                    [] r.kind = "POST" -> ErrCreate
                    [] r.kind = "PUT" -> ErrUpdate
                    [] r.kind = "DELETE" -> ErrDelete
    /\ isLoading' = IF r.kind = "GET" THEN FALSE ELSE isLoading
    /\ apiData' = IF r.kind = "GET" THEN Some(<<>>) ELSE apiData
    /\ timers' = timers + ResetEffect(message, message', FALSE)
    /\ older' = EarlierTimers(message')
    /\ UNCHANGED note
Catch(r) ==
    /\ message' = CASE r.kind = "GET" -> message
                    [] r.kind = "POST" -> ErrCreate
                    [] r.kind = "PUT" -> ErrUpdate
                    [] r.kind = "DELETE" -> ErrDelete
    /\ isLoading' = IF r.kind = "GET" THEN FALSE ELSE isLoading
    /\ timers' = timers + ResetEffect(message, message', FALSE)
    /\ older' = EarlierTimers(message')
    /\ UNCHANGED <<apiData, note>>

\* fetch or response.json() of request i rejects, before or after the API
\* handled the request.
Reject(r) ==
    /\ Catch(r)
    /\ inflight' = Settled(inflight, r)
    /\ last' = "reject"
    /\ UNCHANGED <<store, nextId, started>>

\* The setTimeout callback (lines 54-60), with fetchData up to its first
\* await (lines 37-38).
TimerFireMutant ==
    /\ timers > 0
    /\ message' = message
    /\ note' = Null
    /\ isLoading' = TRUE
    /\ inflight' = Sent(inflight, Request("GET", 0, Null, Null))
    /\ timers' = timers - 1 + ResetEffect(message, message', note' # note)
    /\ older' = EarlierTimers(message')
    /\ last' = "timer"
    /\ UNCHANGED <<apiData, store, nextId, started>>
TimerFire ==
    /\ timers > 0
    /\ message' = NoMessage
    /\ note' = Null
    /\ isLoading' = TRUE
    /\ inflight' = Sent(inflight, Request("GET", 0, Null, Null))
    /\ timers' = timers - 1 + ResetEffect(message, message', note' # note)
    /\ older' = EarlierTimers(message')
    /\ last' = "timer"
    /\ UNCHANGED <<apiData, store, nextId, started>>

Next ==
    \/ \E t \in Titles : TypeTitle(t)
    \/ \E c \in Contents : TypeContent(c)
    \/ Clear
    \/ \E k \in 1..(1 + MaxRequests) : Edit(k)
    \/ Submit
    \/ \E k \in 1..(1 + MaxRequests) : Delete(k)
    \/ \E r \in BagToSet(inflight) : \E falsy \in BOOLEAN : ServerProcess(r, falsy)
    \/ \E r \in BagToSet(inflight) : Resolve(r)
    \/ \E r \in BagToSet(inflight) : Reject(r)
    \/ TimerFire

Spec == Init /\ [][Next]_vars

\* Every request succeeds: no fetch rejects and every POST is answered with
\* the created note.
NextOk ==
    \/ \E t \in Titles : TypeTitle(t)
    \/ \E c \in Contents : TypeContent(c)
    \/ Clear
    \/ \E k \in 1..(1 + MaxRequests) : Edit(k)
    \/ Submit
    \/ \E k \in 1..(1 + MaxRequests) : Delete(k)
    \/ \E r \in BagToSet(inflight) : ServerProcess(r, FALSE)
    \/ \E r \in BagToSet(inflight) : Resolve(r)
    \/ TimerFire

SpecOk == Init /\ [][NextOk]_vars

\* ------------------------------------------------------------------ properties
\* The step settles request r: its continuation or its catch block runs.
Settles(r) == inflight' = Settled(inflight, r)

\* The step is the click on the submit button with a draft that create
\* rejects: null, or without an id and with an empty title or content.
SubmitsInvalidDraft ==
    /\ last' = "submit"
    /\ \/ note = Null
       \/ /\ Val(note).id \in {0, Undefined}
          /\ Val(note).title = "" \/ Val(note).content = ""

\* C1: submitting a draft that is null or has an empty title or content
\* through create starts no request, sets the status to the validation
\* message and changes neither the list nor the draft.
C1_InvalidDraftIsRefused ==
    [][SubmitsInvalidDraft =>
         /\ inflight' = inflight
         /\ started' = started
         /\ message' = "Error: Note title and content are required."
         /\ apiData' = apiData
         /\ note' = note]_vars

\* The draft { title: "", content: "x" } was submitted and refused.
C1_Witness ==
    /\ last = "submit"
    /\ note = Some(Note(0, "", "x"))
    /\ message = ErrRequired
    /\ Pending = 0

\* C2: when the response of a successful POST resolves, the list is the list
\* shown just before with the returned note appended once, the status is the
\* success message and the draft is the empty note.
C2_CreateAppendsToShownList ==
    [][\A r \in BagToSet(inflight) :
         (last' = "resolve" /\ Settles(r) /\ r.kind = "POST" /\ r.data.note # FalsyData) =>
            /\ apiData' = Some(Append(ListOrEmpty(apiData), r.data.note))
            /\ message' = "Note created successfully!"
            /\ note' = Some(Note(0, "", ""))]_vars

\* C3: when the response of a successful DELETE of an id in the shown list
\* resolves, the list has no entry with that id and is one entry shorter
\* than the list shown just before.
C3_DeleteShrinksShownListByOne ==
    [][\A r \in BagToSet(inflight) :
         (/\ last' = "resolve" /\ Settles(r) /\ r.kind = "DELETE"
          /\ r.data.result = ResultDeleted
          /\ HasId(ListOrEmpty(apiData), r.id)) =>
            /\ ~HasId(ListOrEmpty(apiData'), r.id)
            /\ Len(ListOrEmpty(apiData')) = Len(ListOrEmpty(apiData)) - 1]_vars

\* C4: when the response of a successful PUT of an id in the shown list
\* resolves, the list is as long as the list shown just before and still has
\* an entry with that id, and the status is the response's result field.
C4_UpdateKeepsShownList ==
    [][\A r \in BagToSet(inflight) :
         (/\ last' = "resolve" /\ Settles(r) /\ r.kind = "PUT"
          /\ HasId(ListOrEmpty(apiData), r.id)) =>
            /\ Len(ListOrEmpty(apiData')) = Len(ListOrEmpty(apiData))
            /\ HasId(ListOrEmpty(apiData'), r.id)
            /\ message' = r.data.result]_vars

\* The step sets the status to a string: the validation error of create, or
\* the continuation or catch block of a POST, PUT or DELETE.
SetsStatus ==
    \/ SubmitsInvalidDraft
    \/ /\ last' \in {"resolve", "reject"}
       /\ \E r \in BagToSet(inflight) : Settles(r) /\ r.kind # "GET"

\* C5: every step that sets a status schedules exactly one reset timer and no
\* other step schedules any; a timer that fires starts one list fetch and
\* leaves the status null.
C5_OneRefetchPerStatus ==
    [][IF last' = "timer"
       THEN /\ message' = NoMessage
            /\ timers' = timers - 1
            /\ inflight' = Sent(inflight, Request("GET", 0, Null, Null))
       ELSE timers' = timers + (IF SetsStatus THEN 1 ELSE 0)]_vars

\* Nothing is pending: no request in flight and no timer.
Quiescent == Pending = 0 /\ timers = 0

\* C6: once every request has resolved and every timer has fired, which is
\* the state an execution stays in when the user stops acting, the list is
\* the server's list.
C6_QuiescentListIsServerList == Quiescent => apiData = Some(store)

\* C7: a step that ends create, update or delete with its failure status
\* leaves the list and the draft as they were.
C7_FailureStatusLeavesListAndDraft ==
    [][\A r \in BagToSet(inflight) :
         (/\ last' \in {"resolve", "reject"} /\ Settles(r)
          /\ \/ r.kind = "POST" /\ message' = "Error: Failed to create note."
             \/ r.kind = "PUT" /\ message' = "Error: Failed to update note."
             \/ r.kind = "DELETE" /\ message' = "Error: Failed to delete note.") =>
            /\ apiData' = apiData
            /\ note' = note]_vars

\* C8: a list fetch that succeeds replaces the list with the response; one
\* that fails leaves the list as it was and sets no status.
C8_LoadAllReplacesOrKeeps ==
    [][\A r \in BagToSet(inflight) :
         (Settles(r) /\ r.kind = "GET") =>
            /\ last' = "resolve" => apiData' = Some(r.data.list)
            /\ last' = "reject" => apiData' = apiData /\ message' = message]_vars

\* A fetch has just replaced the list with the server's: the entry with the
\* empty title was written by a PUT, which leaves the local list alone.
C8_Witness ==
    /\ last = "resolve"
    /\ apiData = Some(store)
    /\ \E k \in 1..Len(store) : store[k] = Note(1, "", "x")

\* C9: isLoading is true whenever a list fetch is in flight.
C9_LoadingWhileFetching ==
    (\E r \in BagToSet(inflight) : r.kind = "GET") => isLoading

\* C10: Submit starts a PUT to the draft's id exactly when that id is
\* non-zero and goes to create otherwise; typing keeps the draft's id, Edit
\* sets the draft to the chosen entry, Clear sets the id to 0, and a draft
\* gets a non-zero id from Edit alone.
C10_SubmitRouting ==
    [][/\ last' = "submit" =>
            IF note # Null /\ Val(note).id \notin {0, Undefined}
            THEN inflight' = Sent(inflight, Request("PUT", Val(note).id, note, apiData))
            ELSE \/ inflight' = inflight
                 \/ inflight' = Sent(inflight, Request("POST", 0, note, apiData))
       /\ last' \in {"typeTitle", "typeContent"} =>
            /\ note' # Null
            /\ Val(note').id = IF note = Null \/ Val(note).id = Undefined
                               THEN 0 ELSE Val(note).id
       /\ last' = "edit" =>
            \E k \in 1..Len(ListOrEmpty(apiData)) : note' = Some(Val(apiData)[k])
       /\ last' = "clear" => note' # Null /\ Val(note').id = 0
       /\ (/\ note' # Null
           /\ Val(note').id \notin {0, Undefined}
           /\ note = Null \/ Val(note).id # Val(note').id) => last' = "edit"]_vars

\* Entry 1 was edited and submitted: a PUT to id 1 is in flight.
C10_Witness ==
    /\ last = "submit"
    /\ note # Null /\ Val(note).id = 1
    /\ \E r \in BagToSet(inflight) : r.kind = "PUT" /\ r.id = 1 /\ r.body = note

\* The list a response writes, from the request alone: the response body of
\* a GET, and for a mutation the list its closure captured with the note
\* appended, kept or filtered out.
ListWrittenBy(r) ==
    CASE r.kind = "GET" -> r.data.list
      [] r.kind = "POST" -> Append(ListOrEmpty(r.snap), r.data.note)
      [] r.kind = "PUT" -> ListOrEmpty(r.snap)
      [] r.kind = "DELETE" -> SelectSeq(ListOrEmpty(r.snap), LAMBDA n : n.id # r.id)

\* C11: the list after a response resolves is the one that response writes,
\* computed from the snapshot its request captured; what an earlier response
\* wrote does not survive, whatever else is or was in flight.
C11_LastResolvedWins ==
    [][\A r \in BagToSet(inflight) :
         (last' = "resolve" /\ Settles(r)) => apiData' = Some(ListWrittenBy(r))]_vars

\* Two creates were in flight from the list [1]; both have resolved, and the
\* note the first response appended is gone.
C11_Witness ==
    /\ last = "resolve"
    /\ Pending = 0
    /\ Len(store) = 3
    /\ apiData = Some(<<Note(1, "a", "x"), Note(3, "a", "x")>>)

\* C12: a status stays set until the timer scheduled by its own status change
\* fires: the timer callback that clears a status is never one that was
\* scheduled before that status was set.
C12_StatusClearedByOwnTimer ==
    [][(last' = "timer" /\ message # NoMessage) => older = 0]_vars

\* C13: a draft the user is editing becomes null or the empty note only by
\* Clear, by the continuation of a successful create, or by the reset that
\* follows a successful create or update.
C13_DraftDiscardedOnlyAfterSuccess ==
    [][(/\ note # Null
        /\ note # Some(Note(0, "", ""))
        /\ note' \in {Null, Some(Note(0, "", ""))}
        /\ last' \notin {"typeTitle", "typeContent"}) =>
           \/ last' = "clear"
           \/ /\ last' = "resolve"
              /\ \E r \in BagToSet(inflight) :
                   Settles(r) /\ r.kind = "POST" /\ r.data.note # FalsyData
           \/ /\ last' = "timer"
              /\ message \in {"Note created successfully!", ResultUpdated}]_vars

\* C14: when the response of a PUT resolves, every entry of the list has the
\* title and content it had in the list the request captured; the draft
\* that was sent is not written into the list.
C14_UpdateLeavesEntries ==
    [][\A r \in BagToSet(inflight) :
         (last' = "resolve" /\ Settles(r) /\ r.kind = "PUT" /\ r.snap # Null) =>
            /\ apiData' # Null
            /\ Len(Val(apiData')) = Len(Val(r.snap))
            /\ \A k \in 1..Len(Val(r.snap)) : Val(apiData')[k] = Val(r.snap)[k]
            /\ (\A k \in 1..Len(Val(r.snap)) : Val(r.snap)[k] # Val(r.body)) =>
                   \A k \in 1..Len(Val(apiData')) : Val(apiData')[k] # Val(r.body)]_vars

\* Entry 1 was updated to an empty title: the server holds the new title,
\* the list still shows the old one.
C14_Witness ==
    /\ last = "resolve"
    /\ message = ResultUpdated
    /\ store = <<Note(1, "", "x")>>
    /\ apiData = Some(<<Note(1, "a", "x")>>)

\* C15: submitting a draft with a non-zero id and an empty title or content
\* starts the PUT with that draft as body, and a click on Delete starts the
\* DELETE for the entry's id, whatever it is; neither sets a status.
C15_UpdateAndDeleteUnguarded ==
    [][/\ (/\ last' = "submit"
           /\ note # Null
           /\ Val(note).id \notin {0, Undefined}
           /\ Val(note).title = "" \/ Val(note).content = "") =>
              /\ inflight' = Sent(inflight, Request("PUT", Val(note).id, note, apiData))
              /\ message' = message
              /\ timers' = timers
       /\ last' = "delete" =>
              /\ \E k \in 1..Len(ListOrEmpty(apiData)) :
                   inflight' = Sent(inflight,
                                    Request("DELETE", Val(apiData)[k].id, Null, apiData))
              /\ message' = message
              /\ timers' = timers]_vars

\* A PUT whose body has an empty title is in flight and no status is shown.
C15_Witness ==
    /\ last = "submit"
    /\ message = NoMessage
    /\ \E r \in BagToSet(inflight) :
         r.kind = "PUT" /\ r.id = 1 /\ r.body = Some(Note(1, "", "x"))

\* C16: whenever a status is shown, at least one reset timer is pending.
C16_StatusHasTimer == message # NoMessage => timers > 0

\* A response has set a status while an earlier timer was still pending.
C16_Witness ==
    /\ last = "resolve"
    /\ message = ResultDeleted
    /\ timers = 2

\* The steps a request still has to take (handling by the API, then its
\* continuation), weighted so that the timer a mutation's response schedules
\* is paid for by the request.
Weight(r) ==
    (IF r.kind = "GET" THEN 0 ELSE 4) + (IF r.stage = "sent" THEN 2 ELSE 1)

RECURSIVE SumWeights(_, _)
SumWeights(b, S) ==
    IF S = {} THEN 0
    ELSE LET r == CHOOSE x \in S : TRUE
         IN  b[r] * Weight(r) + SumWeights(b, S \ {r})

\* What is left to do without the user: 3 per pending timer (fire, handle
\* the GET, resolve it) plus the weight of every request in flight.
WorkLeft(b, t) == 3 * t + SumWeights(b, BagToSet(b))

\* C17: a timer that fires schedules no timer, and neither does the end of
\* a list fetch; every step the component takes without the user leaves less
\* to do, so such steps run out; and when no request is in flight and no
\* timer is pending, the status is null and isLoading is false.
C17_ResetCycleEnds ==
    [][/\ last' = "timer" => timers' = timers - 1
       /\ \A r \in BagToSet(inflight) :
            (last' \in {"resolve", "reject"} /\ Settles(r) /\ r.kind = "GET") =>
               timers' = timers
       /\ last' \in {"process", "resolve", "reject", "timer"} =>
            WorkLeft(inflight', timers') < WorkLeft(inflight, timers)
       /\ (BagCardinality(inflight') = 0 /\ timers' = 0) =>
            message' = NoMessage /\ ~isLoading']_vars

\* After a request of the user, its status, the reset and the refetch,
\* nothing is pending.
C17_Witness ==
    /\ Quiescent
    /\ started > 0
    /\ last = "resolve"
    /\ message = NoMessage
    /\ ~isLoading

\* C18: the API's lists have distinct ids and every created note gets an id
\* never used before, and no two entries of the local list that have an id
\* (a falsy response body has none) have the same one.
C18_DistinctIds ==
    /\ \A j, k \in 1..Len(store) : store[j].id = store[k].id => j = k
    /\ \A k \in 1..Len(store) : store[k].id < nextId
    /\ \A j, k \in 1..Len(ListOrEmpty(apiData)) :
         (/\ Val(apiData)[j].id = Val(apiData)[k].id
          /\ Val(apiData)[j].id # Undefined) => j = k

\* A create resolved after a fetch that already held the created note was
\* in flight: the list has the note once.
C18_Witness ==
    /\ last = "resolve"
    /\ apiData = Some(<<Note(1, "a", "x"), Note(2, "a", "x")>>)
    /\ store = <<Note(1, "a", "x"), Note(2, "a", "x")>>
    /\ isLoading
    /\ message = MsgCreated

====
